---------------------------- MODULE Spec2Model ----------------------------
(***************************************************************************)
(* A model of kol/geometry.py: the rigid-body dynamics aggregation         *)
(* (combine_dynamics), the inertia helpers (moments_to_matrix,             *)
(* transform_inertia_tensor), the point transform (apply_transform,        *)
(* origin_and_rpy_to_transform) and the mesh operations                    *)
(* (get_center_of_mass, scale_mesh, combine_meshes, apply_matrix_).        *)
(*                                                                         *)
(* Numbers.  A float64 is modelled as an exact fraction <<n, d>> in lowest *)
(* terms with d > 0, or as one of the three non-finite values numpy        *)
(* produces on a division by zero: <<0,0>> (nan), <<1,0>> (+inf) and       *)
(* <<-1,0>> (-inf).  Rounding is not modelled: arithmetic is exact.        *)
(***************************************************************************)
EXTENDS Integers, Sequences, FiniteSets, TLC

VARIABLES
    op,      \* call machine: the function called last
    args,    \* call machine: its arguments
    res,     \* call machine: what it returned, or the error it raised
    heap,    \* object machine: array storage, address |-> contents
    objs,    \* object machine: the mesh objects the caller holds
    last,    \* object machine: the last call (inputs, snapshot, result)
    calls,   \* object machine: number of calls made so far
    tensor,  \* inertia chain: the current inertia tensor
    depth    \* inertia chain: number of operations applied to it

vars == <<op, args, res, heap, objs, last, calls, tensor, depth>>

-----------------------------------------------------------------------------
(* float64 arithmetic, exact, with nan and the infinities *)

Abs(i) == IF i < 0 THEN -i ELSE i

Sgn(i) == IF i > 0 THEN 1 ELSE IF i < 0 THEN -1 ELSE 0

RECURSIVE GCD(_, _)
GCD(a, b) == IF b = 0 THEN a ELSE GCD(b, a % b)

\* the fraction n/d (d >= 0) in lowest terms; d = 0 gives nan or an infinity
Norm(n, d) ==
    IF d = 0 THEN <<Sgn(n), 0>>
    ELSE LET g == GCD(Abs(n), d) IN <<n \div g, d \div g>>

R(i) == <<i, 1>>

NaN == <<0, 0>>
PosInf == <<1, 0>>
NegInf == <<-1, 0>>

IsFinite(a) == a[2] > 0
IsNaN(a) == a = NaN

Neg(a) == <<-a[1], a[2]>>

\* sums and products are reduced before they are formed, to keep them small
Add(a, b) ==
    IF IsFinite(a) /\ IsFinite(b)
    THEN LET g == GCD(a[2], b[2])
         IN  Norm(a[1] * (b[2] \div g) + b[1] * (a[2] \div g), (a[2] \div g) * b[2])
    ELSE IF IsNaN(a) \/ IsNaN(b) THEN NaN
    ELSE IF IsFinite(a) THEN b
    ELSE IF IsFinite(b) THEN a
    ELSE IF a = b THEN a ELSE NaN

Sub(a, b) == Add(a, Neg(b))

Mul(a, b) ==
    IF IsFinite(a) /\ IsFinite(b)
    THEN LET g == GCD(Abs(a[1]), b[2])
             h == GCD(Abs(b[1]), a[2])
         IN  Norm((a[1] \div g) * (b[1] \div h), (a[2] \div h) * (b[2] \div g))
    ELSE <<Sgn(a[1] * b[1]), 0>>

\* 1/b; the zero the code divides by is always +0.0
Recip(b) ==
    IF b[1] > 0 THEN <<b[2], b[1]>>
    ELSE IF b[1] < 0 THEN <<-b[2], -b[1]>>
    ELSE IF b[2] > 0 THEN PosInf
    ELSE NaN

Div(a, b) == Mul(a, Recip(b))

Gt0(a) == a[1] > 0

Le0(a) == a[1] < 0 \/ (a[1] = 0 /\ a[2] > 0)

-----------------------------------------------------------------------------
(* 3-vectors and 3x3 matrices of floats *)

V(x, y, z) == <<R(x), R(y), R(z)>>

ZeroVec == V(0, 0, 0)

VAdd(u, v) == <<Add(u[1], v[1]), Add(u[2], v[2]), Add(u[3], v[3])>>
VSub(u, v) == <<Sub(u[1], v[1]), Sub(u[2], v[2]), Sub(u[3], v[3])>>
VScale(u, s) == <<Mul(u[1], s), Mul(u[2], s), Mul(u[3], s)>>
VDiv(u, s) == <<Div(u[1], s), Div(u[2], s), Div(u[3], s)>>

Dot(u, v) == Add(Add(Mul(u[1], v[1]), Mul(u[2], v[2])), Mul(u[3], v[3]))

Cross(u, v) ==
    << Sub(Mul(u[2], v[3]), Mul(u[3], v[2])),
       Sub(Mul(u[3], v[1]), Mul(u[1], v[3])),
       Sub(Mul(u[1], v[2]), Mul(u[2], v[1])) >>

M3(a, b, c, d, e, f, g, h, i) ==
    << <<R(a), R(b), R(c)>>, <<R(d), R(e), R(f)>>, <<R(g), R(h), R(i)>> >>

ZeroMat == M3(0, 0, 0, 0, 0, 0, 0, 0, 0)
Identity3 == M3(1, 0, 0, 0, 1, 0, 0, 0, 1)

MAdd(A, B) == <<VAdd(A[1], B[1]), VAdd(A[2], B[2]), VAdd(A[3], B[3])>>
MSub(A, B) == <<VSub(A[1], B[1]), VSub(A[2], B[2]), VSub(A[3], B[3])>>
MScale(A, s) == <<VScale(A[1], s), VScale(A[2], s), VScale(A[3], s)>>
Transpose(A) ==
    << <<A[1][1], A[2][1], A[3][1]>>,
       <<A[1][2], A[2][2], A[3][2]>>,
       <<A[1][3], A[2][3], A[3][3]>> >>
Column(A, j) == <<A[1][j], A[2][j], A[3][j]>>
RowTimes(a, B) == <<Dot(a, Column(B, 1)), Dot(a, Column(B, 2)), Dot(a, Column(B, 3))>>
MatMul(A, B) == <<RowTimes(A[1], B), RowTimes(A[2], B), RowTimes(A[3], B)>>

\* p.T * p for the 1x3 matrix p = np.matrix(r)
Outer(r) == <<VScale(r, r[1]), VScale(r, r[2]), VScale(r, r[3])>>

IsSymmetric(A) == \A i, j \in 1..3 : A[i][j] = A[j][i]

-----------------------------------------------------------------------------
(* Inertia component *)

\* moments_to_matrix: [Ixx, Iyy, Izz, Ixy, Ixz, Iyz] -> 3x3
moments_to_matrix(inertia_moments) ==
    LET ixx == inertia_moments[1]
        iyy == inertia_moments[2]
        izz == inertia_moments[3]
        ixy == inertia_moments[4]
        ixz == inertia_moments[5]
        iyz == inertia_moments[6]
    IN  << <<ixx, ixy, ixz>>,
           <<ixy, iyy, iyz>>,
           <<ixz, iyz, izz>> >>

\* np.array(inertia).reshape(3, 3): a flat list of 9 becomes 3 rows of 3
Reshape33(inertia) ==
    IF Len(inertia) = 9
    THEN << <<inertia[1], inertia[2], inertia[3]>>,
            <<inertia[4], inertia[5], inertia[6]>>,
            <<inertia[7], inertia[8], inertia[9]>> >>
    ELSE inertia

\* a slip: rotation @ inertia_matrix @ rotation, the first transpose forgotten
TransformInertiaUntransposed(inertia, rotation) ==
    MatMul(MatMul(rotation, Reshape33(inertia)), rotation)

\* transform_inertia_tensor: rotation.T @ inertia_matrix @ rotation
transform_inertia_tensor(inertia, rotation) ==
    MatMul(MatMul(Transpose(rotation), Reshape33(inertia)), rotation)

-----------------------------------------------------------------------------
(* Dynamics aggregation component *)

Dynamics(mass, com, inertia) == [mass |-> mass, com |-> com, inertia |-> inertia]

\* first loop of combine_dynamics: mass += d.mass; com += d.com * d.mass
RECURSIVE MassLoop(_, _, _, _)
MassLoop(dynamics, i, mass, com) ==
    IF i > Len(dynamics) THEN <<mass, com>>
    ELSE MassLoop(dynamics, i + 1,
                  Add(mass, dynamics[i].mass),
                  VAdd(com, VScale(dynamics[i].com, dynamics[i].mass)))

\* a slip: the offset r taken from the origin, not from the combined com
InertiaStepAboutOrigin(inertia, dynamic, com) ==
    LET r == dynamic.com
    IN  MAdd(MAdd(inertia, dynamic.inertia),
             MScale(MSub(MScale(Identity3, Dot(r, r)), Outer(r)), dynamic.mass))

\* one pass of the second loop: the parallel-axis term of one body
InertiaStep(inertia, dynamic, com) ==
    LET r == VSub(dynamic.com, com)
    IN  MAdd(MAdd(inertia, dynamic.inertia),
             MScale(MSub(MScale(Identity3, Dot(r, r)), Outer(r)), dynamic.mass))

RECURSIVE InertiaLoop(_, _, _, _)
InertiaLoop(dynamics, i, inertia, com) ==
    IF i > Len(dynamics) THEN inertia
    ELSE InertiaLoop(dynamics, i + 1, InertiaStep(inertia, dynamics[i], com), com)

\* a slip: the division made whatever the total mass
NormalizeComAlways(mass, com) == VDiv(com, mass)

\* a slip: the division forgotten
NormalizeComNever(mass, com) == com

\* "if mass > 0: com /= mass"
NormalizeCom(mass, com) == IF Gt0(mass) THEN VDiv(com, mass) ELSE com

combine_dynamics(dynamics) ==
    LET sums == MassLoop(dynamics, 1, R(0), ZeroVec)
        mass == sums[1]
        com == NormalizeCom(mass, sums[2])
        inertia == InertiaLoop(dynamics, 1, ZeroMat, com)
    IN  Dynamics(mass, com, inertia)

-----------------------------------------------------------------------------
(* Call outcomes: a returned value, or the exception raised *)

None == "None"

Ok(value) == [outcome |-> "ok", value |-> value]
Raise(error) == [outcome |-> error, value |-> None]

-----------------------------------------------------------------------------
(* numpy arrays of any shape: the shape and the elements in row-major order. *)
(* nd is FALSE for an argument that is not an np.ndarray (a nested list).    *)

NdArray(shape, data) == [nd |-> TRUE, shape |-> shape, data |-> data]

\* element [k, j] (0-based) of a 2-D array
At(a, k, j) == a.data[a.shape[2] * k + j + 1]

-----------------------------------------------------------------------------
(* Mesh geometry component.  A mesh is a sequence of points and a sequence  *)
(* of faces, each face a triple of 0-based indices into the points.         *)

Mesh(points, faces) == [points |-> points, faces |-> faces]

\* the loop of get_center_of_mass over mesh.faces
RECURSIVE VolumeLoop(_, _, _, _)
VolumeLoop(mesh, i, total_volume, center_of_mass) ==
    IF i > Len(mesh.faces) THEN <<total_volume, center_of_mass>>
    ELSE LET triangle == mesh.faces[i]
             p0 == mesh.points[triangle[1] + 1]
             p1 == mesh.points[triangle[2] + 1]
             p2 == mesh.points[triangle[3] + 1]
             volume == Div(Dot(p0, Cross(p1, p2)), R(6))
             centroid == VDiv(VAdd(VAdd(p0, p1), p2), R(4))
         IN  VolumeLoop(mesh, i + 1, Add(total_volume, volume),
                        VAdd(center_of_mass, VScale(centroid, volume)))

\* "center_of_mass /= total_volume": numpy divides by zero without raising
DivideByVolume(center_of_mass, total_volume) ==
    Ok(VDiv(center_of_mass, total_volume))

get_center_of_mass(mesh) ==
    LET sums == VolumeLoop(mesh, 1, R(0), ZeroVec)
    IN  DivideByVolume(sums[2], sums[1])

\* a slip: "scale < 0"
ScaleIsNegative(scale) == scale[1] < 0

\* "if scale <= 0"
ScaleIsInvalid(scale) == Le0(scale)

\* points = mesh.points - com; points *= scale; points += com
ScalePoints(points, scale, com) ==
    [i \in 1..Len(points) |-> VAdd(VScale(VSub(points[i], com), scale), com)]

scale_mesh(mesh, scale, about_origin) ==
    IF ScaleIsInvalid(scale) THEN Raise("ValueError")
    ELSE LET com == IF about_origin THEN Ok(ZeroVec) ELSE get_center_of_mass(mesh)
         IN  IF com.outcome # "ok" THEN com
             ELSE Ok(Mesh(ScalePoints(mesh.points, scale, com.value), mesh.faces))

\* one row of points_homogeneous @ transform.T, cut to its first 3 columns
Coordinate(p, transform, k) ==
    Add(Add(Add(Mul(p[1], At(transform, k, 0)), Mul(p[2], At(transform, k, 1))),
            Mul(p[3], At(transform, k, 2))),
        At(transform, k, 3))

TransformPoint(p, transform) ==
    IF transform.shape[1] >= 3
    THEN <<Coordinate(p, transform, 0), Coordinate(p, transform, 1),
           Coordinate(p, transform, 2)>>
    ELSE [k \in 1..transform.shape[1] |-> Coordinate(p, transform, k - 1)]

\* apply_transform: the matrix product needs transform.T to have 4 rows
apply_transform(points, transform) ==
    IF Len(transform.shape) # 2 \/ transform.shape[2] # 4 THEN Raise("ValueError")
    ELSE Ok([i \in 1..Len(points) |-> TransformPoint(points[i], transform)])

\* a slip: the offset taken for a 1-based index
OffsetFacesOffByOne(faces, offset) ==
    [i \in 1..Len(faces) |-> [k \in 1..3 |-> faces[i][k] + offset + 1]]

\* child_mesh.faces + len(parent_mesh.points)
OffsetFaces(faces, offset) ==
    [i \in 1..Len(faces) |-> [k \in 1..3 |-> faces[i][k] + offset]]

\* a slip: only the number of columns tested
IsTransformFourColumns(relative_transform) ==
    /\ relative_transform.nd
    /\ Len(relative_transform.shape) = 2
    /\ relative_transform.shape[2] = 4

\* the isinstance / shape test of combine_meshes
IsTransform44(relative_transform) ==
    relative_transform.nd /\ relative_transform.shape = <<4, 4>>

\* combine_meshes: how the call ends, and the names of the locals it had
\* assigned by then
combine_meshes(parent_mesh, child_mesh, relative_transform) ==
    IF ~IsTransform44(relative_transform)
    THEN [exit |-> Raise("ValueError"), assigned |-> {}]
    ELSE LET transformed_child_points ==
                 apply_transform(child_mesh.points, relative_transform)
         IN  IF transformed_child_points.outcome # "ok"
             THEN [exit |-> transformed_child_points, assigned |-> {}]
             ELSE LET combined_points ==
                          parent_mesh.points \o transformed_child_points.value
                      offset_child_faces ==
                          OffsetFaces(child_mesh.faces, Len(parent_mesh.points))
                      combined_faces == parent_mesh.faces \o offset_child_faces
                  IN  [exit |-> Ok(Mesh(combined_points, combined_faces)),
                       assigned |-> {"transformed_child_points", "combined_points",
                                     "offset_child_faces", "combined_faces"}]

-----------------------------------------------------------------------------
(* apply_matrix_ on an stl mesh: the vertex arrays v0, v1, v2 and the normals *)

StlMesh(v0, v1, v2, normals) == [v0 |-> v0, v1 |-> v1, v2 |-> v2, normals |-> normals]

\* one row of (rotation * np.matrix(points).T).T + translation * len(points)
StlPoint(p, matrix) ==
    LET rotation == << <<At(matrix, 0, 0), At(matrix, 0, 1), At(matrix, 0, 2)>>,
                       <<At(matrix, 1, 0), At(matrix, 1, 1), At(matrix, 1, 2)>>,
                       <<At(matrix, 2, 0), At(matrix, 2, 1), At(matrix, 2, 2)>> >>
        translation == <<At(matrix, 0, 3), At(matrix, 1, 3), At(matrix, 2, 3)>>
    IN  VAdd(<<Dot(rotation[1], p), Dot(rotation[2], p), Dot(rotation[3], p)>>,
             translation)

\* the inner transform(points); "translation * 0" is [], which does not
\* broadcast against a (0, 3) matrix
StlTransform(points, matrix) ==
    IF Len(points) = 0 THEN Raise("ValueError")
    ELSE Ok([i \in 1..Len(points) |-> StlPoint(points[i], matrix)])

\* apply_matrix_: how the call ends and the attributes of the mesh it was
\* given, which it assigns one after the other and returns
apply_matrix_(mesh, matrix) ==
    LET v0 == StlTransform(mesh.v0, matrix)
        v1 == StlTransform(mesh.v1, matrix)
        v2 == StlTransform(mesh.v2, matrix)
        normals == StlTransform(mesh.normals, matrix)
    IN  IF v0.outcome # "ok" THEN [exit |-> v0, mesh |-> mesh]
        ELSE IF v1.outcome # "ok"
            THEN [exit |-> v1, mesh |-> [mesh EXCEPT !.v0 = v0.value]]
        ELSE IF v2.outcome # "ok"
            THEN [exit |-> v2, mesh |-> [mesh EXCEPT !.v0 = v0.value, !.v1 = v1.value]]
        ELSE IF normals.outcome # "ok"
            THEN [exit |-> normals,
                  mesh |-> [mesh EXCEPT !.v0 = v0.value, !.v1 = v1.value, !.v2 = v2.value]]
        ELSE [exit |-> Ok("mesh"),
              mesh |-> StlMesh(v0.value, v1.value, v2.value, normals.value)]

-----------------------------------------------------------------------------
(* Transform component.  Angles are multiples of pi/2, given as a number of *)
(* quarter turns, where np.cos and np.sin are -1, 0 or 1.                    *)

CosQ(q) == LET m == q % 4 IN IF m = 0 THEN R(1) ELSE IF m = 2 THEN R(-1) ELSE R(0)
SinQ(q) == LET m == q % 4 IN IF m = 1 THEN R(1) ELSE IF m = 3 THEN R(-1) ELSE R(0)

\* np.dot of two 4x4 matrices given as rows
Entry44(A, B, i, j) ==
    Add(Add(Add(Mul(A[i][1], B[1][j]), Mul(A[i][2], B[2][j])),
            Mul(A[i][3], B[3][j])), Mul(A[i][4], B[4][j]))
Row44(A, B, i) == <<Entry44(A, B, i, 1), Entry44(A, B, i, 2), Entry44(A, B, i, 3), Entry44(A, B, i, 4)>>
Dot44(A, B) == <<Row44(A, B, 1), Row44(A, B, 2), Row44(A, B, 3), Row44(A, B, 4)>>

\* a 4x4 matrix given as rows, as a (4, 4) array
Array44(A) == NdArray(<<4, 4>>, A[1] \o A[2] \o A[3] \o A[4])

BuildTransform(relative_origin, relative_rpy) ==
    LET x == relative_origin.data[1]
        y == relative_origin.data[2]
        z == relative_origin.data[3]
        r == relative_rpy.data[1]
        p == relative_rpy.data[2]
        w == relative_rpy.data[3]
        translation == << <<R(1), R(0), R(0), x>>,
                          <<R(0), R(1), R(0), y>>,
                          <<R(0), R(0), R(1), z>>,
                          <<R(0), R(0), R(0), R(1)>> >>
        roll == << <<R(1), R(0), R(0), R(0)>>,
                   <<R(0), CosQ(r), Neg(SinQ(r)), R(0)>>,
                   <<R(0), SinQ(r), CosQ(r), R(0)>>,
                   <<R(0), R(0), R(0), R(1)>> >>
        pitch == << <<CosQ(p), R(0), SinQ(p), R(0)>>,
                    <<R(0), R(1), R(0), R(0)>>,
                    <<Neg(SinQ(p)), R(0), CosQ(p), R(0)>>,
                    <<R(0), R(0), R(0), R(1)>> >>
        yaw == << <<CosQ(w), Neg(SinQ(w)), R(0), R(0)>>,
                  <<SinQ(w), CosQ(w), R(0), R(0)>>,
                  <<R(0), R(0), R(1), R(0)>>,
                  <<R(0), R(0), R(0), R(1)>> >>
        rpy == Dot44(yaw, Dot44(pitch, roll))
    IN  Array44(Dot44(translation, rpy))

\* the two shape tests of origin_and_rpy_to_transform
IsVector3(a) == a.shape = <<3>>

\* origin_and_rpy_to_transform: how the call ends, and the names of the
\* matrices it had built by then
origin_and_rpy_to_transform(relative_origin, relative_rpy) ==
    IF ~IsVector3(relative_origin) THEN [exit |-> Raise("ValueError"), assigned |-> {}]
    ELSE IF ~IsVector3(relative_rpy) THEN [exit |-> Raise("ValueError"), assigned |-> {}]
    ELSE [exit |-> Ok(BuildTransform(relative_origin, relative_rpy)),
          assigned |-> {"translation", "roll", "pitch", "yaw", "rpy", "transform"}]

-----------------------------------------------------------------------------
(* The inputs the calls are made with *)

MaxLen == 3

SymInertia == M3(2, 1, 0, 1, 3, -1, 0, -1, 4)
AsymInertia == M3(1, 2, 0, 0, 1, 0, 0, 0, 1)
\* two unit point masses on the x axis
PointLeft == Dynamics(R(1), V(-1, 0, 0), ZeroMat)
PointRight == Dynamics(R(1), V(1, 0, 0), ZeroMat)
\* bodies of mass 0, 1 and 2 away from the axis
Massless == Dynamics(R(0), V(0, 2, -1), SymInertia)
MasslessPoint == Dynamics(R(0), V(1, 0, 0), ZeroMat)
Body == Dynamics(R(1), V(0, 2, -1), SymInertia)
Heavy == Dynamics(R(2), V(1, 1, 3), SymInertia)
\* a record whose inertia is not symmetric
Lopsided == Dynamics(R(1), V(-1, 0, 0), AsymInertia)
DynRecords == {PointLeft, PointRight, Massless, MasslessPoint, Body, Heavy, Lopsided}
DynLists == UNION {[1..n -> DynRecords] : n \in 0..MaxLen}

\* a single triangle with a corner at the origin: zero volume
Triangle == Mesh(<<V(0, 0, 0), V(1, 0, 0), V(0, 1, 0)>>, <<<<0, 1, 2>>>>)
\* a closed tetrahedron with outward normals, away from the origin: volume 1/6
Tetrahedron ==
    Mesh(<<V(1, 1, 1), V(2, 1, 1), V(1, 2, 1), V(1, 1, 2)>>,
         <<<<0, 2, 1>>, <<0, 1, 3>>, <<0, 3, 2>>, <<1, 2, 3>>>>)
\* two points and no face
TwoPoints == Mesh(<<V(1, 0, 0), V(0, 1, 0)>>, <<>>)
\* no point and no face
EmptyMesh == Mesh(<<>>, <<>>)
\* two faces of opposite signed volume and different centroids
Cancelling ==
    Mesh(<<V(1, 0, 0), V(0, 1, 0), V(0, 0, 1), V(1, 1, 0)>>,
         <<<<0, 1, 2>>, <<0, 2, 3>>>>)
BaseMeshes == {Triangle, Tetrahedron, TwoPoints, EmptyMesh, Cancelling}

Scales == {R(-2), <<-1, 2>>, R(0), <<1, 2>>, R(1), R(2)}

Flat16(a, b, c, d, e, f, g, h, i, j, k, l) ==
    <<R(a), R(b), R(c), R(d), R(e), R(f), R(g), R(h), R(i), R(j), R(k), R(l),
      R(0), R(0), R(0), R(1)>>
Identity4 == NdArray(<<4, 4>>, Flat16(1, 0, 0, 0, 0, 1, 0, 0, 0, 0, 1, 0))
Translate123 == NdArray(<<4, 4>>, Flat16(1, 0, 0, 1, 0, 1, 0, 2, 0, 0, 1, 3))
\* a quarter turn about z, then a translation
TurnAndShift == NdArray(<<4, 4>>, Flat16(0, -1, 0, 2, 1, 0, 0, 0, 0, 0, 1, -1))
\* not a rigid motion: a shear with a scaling
Shear == NdArray(<<4, 4>>, Flat16(2, 1, 0, 0, 0, 1, 0, 0, 0, 3, 1, 1))
Transforms44 == {Identity4, Translate123, TurnAndShift, Shear}
\* arguments that are not a 4x4 np.ndarray
BadTransforms ==
    { NdArray(<<3, 4>>, SubSeq(Translate123.data, 1, 12)),
      NdArray(<<3, 3>>, SubSeq(Translate123.data, 1, 9)),
      NdArray(<<16>>, Translate123.data),
      NdArray(<<5, 4>>, Translate123.data \o <<R(0), R(0), R(0), R(1)>>),
      [nd |-> FALSE, shape |-> <<4, 4>>, data |-> Translate123.data] }
Transforms == Transforms44 \cup BadTransforms

MomentValues == {R(-1), R(0), R(2)}
Moments == [1..6 -> MomentValues]

RotZ == M3(0, -1, 0, 1, 0, 0, 0, 0, 1)
RotX == M3(1, 0, 0, 0, 0, -1, 0, 1, 0)
\* not orthonormal
Skew == M3(1, 2, 0, 0, 1, 0, 3, 0, 1)
Rotations == {Identity3, RotZ, RotX, Skew}
Flat9(A) == A[1] \o A[2] \o A[3]
Inertias == {ZeroMat, SymInertia, AsymInertia, Flat9(SymInertia), Flat9(AsymInertia)}

Origins ==
    { NdArray(<<3>>, V(0, 0, 0)), NdArray(<<3>>, V(1, 2, 3)),
      NdArray(<<2>>, <<R(1), R(2)>>), NdArray(<<4>>, <<R(1), R(2), R(3), R(4)>>),
      NdArray(<<3, 1>>, V(1, 2, 3)), NdArray(<<1, 3>>, V(1, 2, 3)) }
\* roll, pitch, yaw in quarter turns
Rpys ==
    { NdArray(<<3>>, q) : q \in [1..3 -> {0, 1, 2}] }
    \cup { NdArray(<<2>>, <<0, 1>>), NdArray(<<4>>, <<0, 1, 2, 3>>),
           NdArray(<<3, 1>>, <<0, 1, 2>>) }

-----------------------------------------------------------------------------
(* The call machine: one function is called with arguments drawn from the   *)
(* sets above; op, args and res record the call.                            *)

IdleCall == op = "none" /\ args = <<>> /\ res = None
NoCall ==
    [op |-> "none", exit |-> "none", ins |-> {}, outs |-> {}, before |-> <<>>,
     args |-> <<>>, assigned |-> {}, touched |-> FALSE]
IdleObjects == heap = <<>> /\ objs = <<>> /\ last = NoCall /\ calls = 0
IdleChain == tensor = None /\ depth = 0

Init == IdleCall /\ IdleObjects /\ IdleChain

Others == <<heap, objs, last, calls, tensor, depth>>

CombineDynamics ==
    \E dynamics \in DynLists :
        /\ op = "none"
        /\ op' = "combine_dynamics"
        /\ args' = <<dynamics>>
        /\ res' = Ok(combine_dynamics(dynamics))
        /\ UNCHANGED Others

MomentsToMatrix ==
    \E inertia_moments \in Moments :
        /\ op = "none"
        /\ op' = "moments_to_matrix"
        /\ args' = <<inertia_moments>>
        /\ res' = Ok(moments_to_matrix(inertia_moments))
        /\ UNCHANGED Others

TransformInertiaTensor ==
    \E inertia \in Inertias, rotation \in Rotations :
        /\ op = "none"
        /\ op' = "transform_inertia_tensor"
        /\ args' = <<inertia, rotation>>
        /\ res' = Ok(transform_inertia_tensor(inertia, rotation))
        /\ UNCHANGED Others

GetCenterOfMass ==
    \E mesh \in BaseMeshes :
        /\ op = "none"
        /\ op' = "get_center_of_mass"
        /\ args' = <<mesh>>
        /\ res' = get_center_of_mass(mesh)
        /\ UNCHANGED Others

ScaleMesh ==
    \E mesh \in BaseMeshes, scale \in Scales, about_origin \in BOOLEAN :
        /\ op = "none"
        /\ op' = "scale_mesh"
        /\ args' = <<mesh, scale, about_origin>>
        /\ res' = scale_mesh(mesh, scale, about_origin)
        /\ UNCHANGED Others

ApplyTransform ==
    \E mesh \in BaseMeshes, transform \in Transforms44 :
        /\ op = "none"
        /\ op' = "apply_transform"
        /\ args' = <<mesh.points, transform>>
        /\ res' = apply_transform(mesh.points, transform)
        /\ UNCHANGED Others

CombineMeshes ==
    \E parent_mesh \in BaseMeshes, child_mesh \in BaseMeshes,
       relative_transform \in Transforms :
        /\ op = "none"
        /\ op' = "combine_meshes"
        /\ args' = <<parent_mesh, child_mesh, relative_transform>>
        /\ res' = combine_meshes(parent_mesh, child_mesh, relative_transform)
        /\ UNCHANGED Others

OriginAndRpyToTransform ==
    \E relative_origin \in Origins, relative_rpy \in Rpys :
        /\ op = "none"
        /\ op' = "origin_and_rpy_to_transform"
        /\ args' = <<relative_origin, relative_rpy>>
        /\ res' = origin_and_rpy_to_transform(relative_origin, relative_rpy)
        /\ UNCHANGED Others

\* the caller has taken the result; the next call may follow
Return ==
    /\ op # "none"
    /\ op' = "none"
    /\ args' = <<>>
    /\ res' = None
    /\ UNCHANGED Others

Next ==
    \/ CombineDynamics
    \/ MomentsToMatrix
    \/ TransformInertiaTensor
    \/ GetCenterOfMass
    \/ ScaleMesh
    \/ ApplyTransform
    \/ CombineMeshes
    \/ OriginAndRpyToTransform
    \/ Return

Spec == Init /\ [][Next]_vars


-----------------------------------------------------------------------------
(* The inertia chain: one tensor is carried through a sequence of the       *)
(* inertia-producing operations, every other input being symmetric.         *)

MaxDepth == 3

ChainMoments ==
    { <<R(1), R(2), R(3), R(0), R(0), R(0)>>,
      <<R(2), R(3), R(4), R(1), R(0), R(-1)>>,
      <<R(1), R(1), R(2), R(-1), R(2), R(3)>> }
ChainPartners == {PointRight, Body, Massless}
ChainMasses == {R(0), R(1)}
ChainComs == {V(-1, 0, 0), V(0, 1, 1)}

InitChain ==
    /\ IdleCall
    /\ IdleObjects
    /\ tensor \in {ZeroMat, SymInertia}
    /\ depth = 0

ChainMomentsToMatrix ==
    \E inertia_moments \in ChainMoments :
        /\ depth < MaxDepth
        /\ op' = "moments_to_matrix"
        /\ args' = <<inertia_moments>>
        /\ res' = Ok(moments_to_matrix(inertia_moments))
        /\ tensor' = moments_to_matrix(inertia_moments)
        /\ depth' = depth + 1
        /\ UNCHANGED <<heap, objs, last, calls>>

ChainTransform ==
    \E rotation \in Rotations :
        /\ depth < MaxDepth
        /\ op' = "transform_inertia_tensor"
        /\ args' = <<tensor, rotation>>
        /\ res' = Ok(transform_inertia_tensor(tensor, rotation))
        /\ tensor' = transform_inertia_tensor(tensor, rotation)
        /\ depth' = depth + 1
        /\ UNCHANGED <<heap, objs, last, calls>>

ChainCombine ==
    \E mass \in ChainMasses, com \in ChainComs, partner \in ChainPartners :
        LET dynamics == <<Dynamics(mass, com, tensor), partner>> IN
        /\ depth < MaxDepth
        /\ op' = "combine_dynamics"
        /\ args' = <<dynamics>>
        /\ res' = Ok(combine_dynamics(dynamics))
        /\ tensor' = combine_dynamics(dynamics).inertia
        /\ depth' = depth + 1
        /\ UNCHANGED <<heap, objs, last, calls>>

NextChain ==
    \/ ChainMomentsToMatrix
    \/ ChainTransform
    \/ ChainCombine

SpecInertia == InitChain /\ [][NextChain]_vars

\* C10: the inertia tensor stays symmetric through any sequence of
\* moments_to_matrix, transform_inertia_tensor and combine_dynamics on
\* symmetric inputs; moments_to_matrix puts Ixx, Iyy, Izz on the diagonal and
\* Ixy, Ixz, Iyz at both mirrored places; the identity rotation changes nothing.
C10_SymmetryPreserved ==
    /\ IsSymmetric(tensor)
    /\ op = "moments_to_matrix" =>
           LET m == args[1] IN
           /\ tensor[1][1] = m[1] /\ tensor[2][2] = m[2] /\ tensor[3][3] = m[3]
           /\ tensor[1][2] = m[4] /\ tensor[2][1] = m[4]
           /\ tensor[1][3] = m[5] /\ tensor[3][1] = m[5]
           /\ tensor[2][3] = m[6] /\ tensor[3][2] = m[6]
    /\ (op = "transform_inertia_tensor" /\ args[2] = Identity3) => tensor = args[1]
    /\ op = "combine_dynamics" =>
           (\A i \in 1..Len(args[1]) : IsSymmetric(args[1][i].inertia))

C10_Witness ==
    /\ depth = 3
    /\ op = "combine_dynamics"
    /\ tensor # ZeroMat
    /\ tensor[1][2] # R(0)
    /\ tensor[1][2] = tensor[2][1]
    /\ args[1][1].inertia # SymInertia
    /\ args[1][1].inertia[2][3] # R(0)

-----------------------------------------------------------------------------
(* The object machine: arrays live in a heap, address |-> contents, and a   *)
(* mesh object names the addresses of its points and of its faces.  The     *)
(* caller allocates the arguments, calls one function, and may then change  *)
(* the result in place.  last records the call: the addresses reachable     *)
(* from its arguments (ins) and from its result (outs), and the heap as it  *)
(* was when the call began (before).                                        *)

MaxCalls == 2

Cell(kind, value) == [kind |-> kind, value |-> value]

\* a Mesh object: the addresses of its points and of its faces
MeshObject(points, faces) == [kind |-> "Mesh", points |-> points, faces |-> faces]
\* an stl mesh object: the address of the cell holding its attributes
StlObject(at) == [kind |-> "stl", points |-> at, faces |-> at]
\* an array object: the address of its cell
ArrayObject(at) == [kind |-> "array", points |-> at, faces |-> at]

Deref(h, m) == Mesh(h[m.points].value, h[m.faces].value)

ObjScales == {<<3, 2>>}
ObjTransforms == {TurnAndShift} \cup BadTransforms
ObjMeshes == {Tetrahedron, TwoPoints, EmptyMesh}
ObjOrigins == {o \in Origins : o.data[1] # R(0) /\ Len(o.data) >= 3}
ObjRpys == {r \in Rpys : r.data[1] = 0 /\ r.data[2] = 1 /\ r.shape # <<3>>}
               \cup {NdArray(<<3>>, <<0, 1, 2>>)}
StlMeshes ==
    { StlMesh(<<V(0, 0, 0)>>, <<V(1, 0, 0)>>, <<V(0, 1, 0)>>, <<V(0, 0, 1)>>),
      StlMesh(<<>>, <<>>, <<>>, <<>>) }

\* the caller holds one object: a Mesh, or an stl mesh
InitHeap ==
    /\ IdleCall
    /\ IdleChain
    /\ \/ \E mesh \in ObjMeshes :
              /\ heap = <<Cell("points", mesh.points), Cell("faces", mesh.faces)>>
              /\ objs = <<MeshObject(1, 2)>>
       \/ \E mesh \in StlMeshes :
              /\ heap = <<Cell("stl", mesh)>>
              /\ objs = <<StlObject(1)>>
    /\ last = NoCall
    /\ calls = 0

CallRecord(name, exit, ins, outs, before, arguments, assigned) ==
    [op |-> name, exit |-> exit, ins |-> ins, outs |-> outs, before |-> before,
     args |-> arguments, assigned |-> assigned, touched |-> FALSE]

Start == calls < MaxCalls /\ ~last.touched
Rest == <<op, args, res, tensor, depth>>

\* "Mesh(points=points, faces=mesh.faces)": the new mesh holds the new points
\* array and the very faces array of the mesh it was given
ScaledMesh(mesh, new_points) == MeshObject(new_points, mesh.faces)

ObjScaleMesh ==
    \E i \in 1..Len(objs), scale \in ObjScales, about_origin \in BOOLEAN :
        LET mesh == objs[i]
            at == Len(heap) + 1
        IN  /\ Start
            /\ mesh.kind = "Mesh"
            /\ LET r == scale_mesh(Deref(heap, mesh), scale, about_origin)
                   made == ScaledMesh(mesh, at)
               IN  /\ r.outcome = "ok"
                   /\ heap' = Append(heap, Cell("points", r.value.points))
                   /\ objs' = Append(objs, made)
                   /\ last' = CallRecord("scale_mesh", "ok", {mesh.points, mesh.faces},
                                         {made.points, made.faces}, heap,
                                         <<mesh, scale, about_origin>>, {})
            /\ calls' = calls + 1
            /\ UNCHANGED Rest

\* the transforms a call may be given: the caller's own, and the arrays
\* origin_and_rpy_to_transform has returned
HeldTransforms ==
    ObjTransforms \cup {heap[objs[i].points].value : i \in {k \in 1..Len(objs) : objs[k].kind = "array"}}

ObjCombineMeshes ==
    \E i \in 1..Len(objs), j \in 1..Len(objs), relative_transform \in HeldTransforms :
        LET parent_mesh == objs[i]
            child_mesh == objs[j]
            at == Len(heap)
            ins == {parent_mesh.points, parent_mesh.faces,
                    child_mesh.points, child_mesh.faces}
            arguments == <<parent_mesh, child_mesh, relative_transform>>
        IN  /\ Start
            /\ parent_mesh.kind = "Mesh"
            /\ child_mesh.kind = "Mesh"
            /\ LET r == combine_meshes(Deref(heap, parent_mesh), Deref(heap, child_mesh),
                                       relative_transform)
               IN  IF r.exit.outcome = "ok"
                   THEN /\ heap' = heap \o <<Cell("points", r.exit.value.points),
                                             Cell("faces", r.exit.value.faces)>>
                        /\ objs' = Append(objs, MeshObject(at + 1, at + 2))
                        /\ last' = CallRecord("combine_meshes", "ok", ins,
                                              {at + 1, at + 2}, heap, arguments, r.assigned)
                   ELSE /\ heap' = heap
                        /\ objs' = objs
                        /\ last' = CallRecord("combine_meshes", r.exit.outcome, ins, {},
                                              heap, arguments, r.assigned)
            /\ calls' = calls + 1
            /\ UNCHANGED Rest

\* the caller makes the origin and rpy arrays and calls with them
ObjOriginAndRpyToTransform ==
    \E relative_origin \in ObjOrigins, relative_rpy \in ObjRpys :
        LET before == heap \o <<Cell("array", relative_origin), Cell("array", relative_rpy)>>
            at == Len(before)
            arguments == <<relative_origin, relative_rpy>>
        IN  /\ Start
            /\ LET r == origin_and_rpy_to_transform(relative_origin, relative_rpy)
               IN  IF r.exit.outcome = "ok"
                   THEN /\ heap' = Append(before, Cell("array", r.exit.value))
                        /\ objs' = Append(objs, ArrayObject(at + 1))
                        /\ last' = CallRecord("origin_and_rpy_to_transform", "ok",
                                              {at - 1, at}, {at + 1}, before, arguments,
                                              r.assigned)
                   ELSE /\ heap' = before
                        /\ objs' = objs
                        /\ last' = CallRecord("origin_and_rpy_to_transform",
                                              r.exit.outcome, {at - 1, at}, {}, before,
                                              arguments, r.assigned)
            /\ calls' = calls + 1
            /\ UNCHANGED Rest

\* applyTransformToMesh of the specification: the points through
\* apply_transform, the faces copied into the new mesh
ApplyTransformToMesh(h, mesh, transformed_points) ==
    <<Cell("points", transformed_points), Cell("faces", h[mesh.faces].value)>>

ObjApplyTransform ==
    \E i \in 1..Len(objs), transform \in Transforms44 \cap ObjTransforms :
        LET mesh == objs[i]
            at == Len(heap)
        IN  /\ Start
            /\ mesh.kind = "Mesh"
            /\ LET r == apply_transform(heap[mesh.points].value, transform)
               IN  /\ r.outcome = "ok"
                   /\ heap' = heap \o ApplyTransformToMesh(heap, mesh, r.value)
                   /\ objs' = Append(objs, MeshObject(at + 1, at + 2))
                   /\ last' = CallRecord("apply_transform", "ok", {mesh.points}, {at + 1},
                                         heap, <<mesh, transform>>, {})
            /\ calls' = calls + 1
            /\ UNCHANGED Rest

\* apply_matrix_ assigns the attributes of the object it was given and
\* returns that object
ObjApplyMatrix ==
    \E i \in 1..Len(objs), matrix \in Transforms44 \cap ObjTransforms :
        LET mesh == objs[i]
            at == mesh.points
        IN  /\ Start
            /\ mesh.kind = "stl"
            /\ LET r == apply_matrix_(heap[at].value, matrix)
               IN  /\ heap' = [heap EXCEPT ![at] = Cell("stl", r.mesh)]
                   /\ last' = CallRecord("apply_matrix_", r.exit.outcome, {at},
                                         IF r.exit.outcome = "ok" THEN {at} ELSE {},
                                         heap, <<mesh, matrix>>, {})
            /\ objs' = objs
            /\ calls' = calls + 1
            /\ UNCHANGED Rest

\* an in-place change by the caller: the first point moved, the first face's
\* winding reversed
Touched(cell) ==
    IF cell.kind = "points"
        THEN Cell("points", [cell.value EXCEPT ![1] = VAdd(@, V(1, 0, 0))])
    ELSE IF cell.kind = "faces"
        THEN Cell("faces", [cell.value EXCEPT ![1] = <<@[3], @[2], @[1]>>])
    ELSE IF cell.kind = "array"
        THEN Cell("array", [cell.value EXCEPT !.data[1] = Add(@, R(1))])
    ELSE Cell("stl", [cell.value EXCEPT !.v0[1] = VAdd(@, V(1, 0, 0))])

Touchable(cell) ==
    IF cell.kind = "stl" THEN Len(cell.value.v0) > 0
    ELSE IF cell.kind = "array" THEN TRUE
    ELSE Len(cell.value) > 0

TouchResult ==
    \E a \in last.outs :
        /\ ~last.touched
        /\ Touchable(heap[a])
        /\ heap' = [heap EXCEPT ![a] = Touched(@)]
        /\ last' = [last EXCEPT !.touched = TRUE]
        /\ UNCHANGED <<objs, calls>>
        /\ UNCHANGED Rest

NextHeap ==
    \/ ObjScaleMesh
    \/ ObjCombineMeshes
    \/ ObjApplyTransform
    \/ ObjApplyMatrix
    \/ ObjOriginAndRpyToTransform
    \/ TouchResult

SpecHeap == InitHeap /\ [][NextHeap]_vars

ValidMesh(mesh) ==
    \A i \in 1..Len(mesh.faces) : \A k \in 1..3 :
        0 <= mesh.faces[i][k] /\ mesh.faces[i][k] < Len(mesh.points)

\* the image R p + t of a point under a 4x4 transform [[R, t], [0, 1]]
Image(p, T) ==
    LET rot == << <<At(T, 0, 0), At(T, 0, 1), At(T, 0, 2)>>,
                  <<At(T, 1, 0), At(T, 1, 1), At(T, 1, 2)>>,
                  <<At(T, 2, 0), At(T, 2, 1), At(T, 2, 2)>> >>
        t == <<At(T, 0, 3), At(T, 1, 3), At(T, 2, 3)>>
    IN  VAdd(RowTimes(p, Transpose(rot)), t)

\* C6: combine_meshes given a transform that is not a 4x4 array, and
\* origin_and_rpy_to_transform given an origin or an rpy that is not a
\* 3-vector, raise the validation error before anything is computed: no local
\* is assigned, nothing is allocated or returned, the heap is as it was.
C6_ShapeErrorsAreEager ==
    /\ (last.op = "combine_meshes"
            /\ ~(last.args[3].nd /\ last.args[3].shape = <<4, 4>>)) =>
           /\ last.exit = "ValueError"
           /\ last.assigned = {}
           /\ last.outs = {}
           /\ heap = last.before
    /\ (last.op = "origin_and_rpy_to_transform"
            /\ (last.args[1].shape # <<3>> \/ last.args[2].shape # <<3>>)) =>
           /\ last.exit = "ValueError"
           /\ last.assigned = {}
           /\ last.outs = {}
           /\ heap = last.before

C6_Witness ==
    /\ calls = 2
    /\ Len(objs) = 2
    /\ last.op = "combine_meshes"
    /\ last.args[3].shape = <<3, 4>>
    /\ last.exit = "ValueError"
    /\ heap = last.before

\* C7: no operation changes an array or object it was given, and what it
\* returns shares no storage with what it was given, so an in-place change to
\* the result leaves every input as it was.
C7_InputsUntouchedResultFresh ==
    last.op # "none" =>
        /\ \A a \in last.ins : heap[a] = last.before[a]
        /\ last.outs \cap last.ins = {}

-----------------------------------------------------------------------------
(* The aggregation formulas of the specification, written as sums *)

RECURSIVE SumSeq(_)
SumSeq(s) == IF Len(s) = 0 THEN R(0) ELSE Add(Head(s), SumSeq(Tail(s)))

TotalMass(L) == SumSeq([i \in 1..Len(L) |-> L[i].mass])

WeightedCom(L) ==
    LET mean(k) ==
            Div(SumSeq([i \in 1..Len(L) |-> Mul(L[i].mass, L[i].com[k])]), TotalMass(L))
    IN  <<mean(1), mean(2), mean(3)>>

ParallelAxis(L) ==
    LET c == WeightedCom(L)
        r(i) == VSub(L[i].com, c)
        term(i, j, k) ==
            Add(L[i].inertia[j][k],
                Mul(L[i].mass,
                    Sub(IF j = k THEN Dot(r(i), r(i)) ELSE R(0), Mul(r(i)[j], r(i)[k]))))
        sum(j, k) == SumSeq([i \in 1..Len(L) |-> term(i, j, k)])
    IN  << <<sum(1, 1), sum(1, 2), sum(1, 3)>>,
           <<sum(2, 1), sum(2, 2), sum(2, 3)>>,
           <<sum(3, 1), sum(3, 2), sum(3, 3)>> >>

AllMassless(L) == \A i \in 1..Len(L) : L[i].mass = R(0)

\* C2: for every list of total mass > 0, combine_dynamics returns the sum of
\* the masses, the mass-weighted mean of the centers of mass, and the sum of
\* the inertias shifted to it by the parallel-axis theorem; two unit point
\* masses at (-1,0,0) and (1,0,0) give mass 2, com (0,0,0), inertia diag(0,2,2).
C2_ParallelAxisAggregation ==
    (op = "combine_dynamics" /\ Gt0(TotalMass(args[1]))) =>
        /\ res.outcome = "ok"
        /\ res.value.mass = TotalMass(args[1])
        /\ res.value.com = WeightedCom(args[1])
        /\ res.value.inertia = ParallelAxis(args[1])
        /\ args[1] = <<PointLeft, PointRight>> =>
               res.value = Dynamics(R(2), ZeroVec, M3(0, 0, 0, 0, 2, 0, 0, 0, 2))

C2_Witness ==
    /\ op = "combine_dynamics"
    /\ args[1] = <<PointLeft, PointRight>>
    /\ res.value.inertia = M3(0, 0, 0, 0, 2, 0, 0, 0, 2)

\* C3: combine_dynamics raises nothing on a degenerate input: the empty list
\* gives mass 0, com (0,0,0) and the zero inertia; a non-empty list of
\* massless records gives mass 0 and com exactly (0,0,0), not the nan a
\* division by the zero total mass would give.
C3_DegenerateFallback ==
    op = "combine_dynamics" =>
        /\ res.outcome = "ok"
        /\ args[1] = <<>> => res.value = Dynamics(R(0), ZeroVec, ZeroMat)
        /\ AllMassless(args[1]) => (res.value.mass = R(0) /\ res.value.com = ZeroVec)

C3_Witness ==
    /\ op = "combine_dynamics"
    /\ Len(args[1]) = 2
    /\ AllMassless(args[1])
    /\ res.value.com = ZeroVec

Swap(L, i) ==
    [k \in 1..Len(L) |-> IF k = i THEN L[i + 1] ELSE IF k = i + 1 THEN L[i] ELSE L[k]]

\* C8: for masses >= 0, aggregating the aggregates of the two parts A and B of
\* a list gives the record aggregating the whole list gives, for every split
\* (A or B empty or massless included), and so does aggregating the list with
\* two neighbours exchanged (neighbour exchanges generate every permutation).
C8_SubtreeAggregation ==
    op = "combine_dynamics" =>
        LET L == args[1] IN
        /\ \A k \in 0..Len(L) :
               combine_dynamics(<<combine_dynamics(SubSeq(L, 1, k)),
                                  combine_dynamics(SubSeq(L, k + 1, Len(L)))>>)
                   = res.value
        /\ \A i \in 1..(Len(L) - 1) : combine_dynamics(Swap(L, i)) = res.value

C8_Witness ==
    /\ op = "combine_dynamics"
    /\ args[1] = <<PointLeft, Heavy, Body>>
    /\ res.value = combine_dynamics(<<combine_dynamics(<<PointLeft, Heavy>>),
                                      combine_dynamics(<<Body>>)>>)
    /\ res.value.com # ZeroVec

-----------------------------------------------------------------------------
(* Mesh claims on the call machine *)

\* C1: with a 4x4 transform, combine_meshes returns the parent's points
\* followed by the images of the child's points, and the parent's faces
\* followed by the child's faces with len(parent.points) added to each index;
\* two single triangles under the identity give 6 points, faces (0,1,2),(3,4,5).
C1_CombinedMeshLayout ==
    (op = "combine_meshes" /\ IsTransform44(args[3])) =>
        LET parent == args[1]
            child == args[2]
            np == Len(parent.points)
            nf == Len(parent.faces)
            mesh == res.exit.value
        IN  /\ res.exit.outcome = "ok"
            /\ Len(mesh.points) = np + Len(child.points)
            /\ Len(mesh.faces) = nf + Len(child.faces)
            /\ \A i \in 1..np : mesh.points[i] = parent.points[i]
            /\ \A i \in 1..Len(child.points) :
                   mesh.points[np + i] = Image(child.points[i], args[3])
            /\ \A i \in 1..nf : mesh.faces[i] = parent.faces[i]
            /\ \A i \in 1..Len(child.faces) : \A k \in 1..3 :
                   mesh.faces[nf + i][k] = child.faces[i][k] + np
            /\ (parent = Triangle /\ child = Triangle /\ args[3] = Identity4) =>
                   /\ Len(mesh.points) = 6
                   /\ mesh.faces = <<<<0, 1, 2>>, <<3, 4, 5>>>>

C1_Witness ==
    /\ op = "combine_meshes"
    /\ args = <<Tetrahedron, Cancelling, TurnAndShift>>
    /\ res.exit.outcome = "ok"
    /\ Len(res.exit.value.points) = 8
    /\ res.exit.value.faces[6] = <<4, 6, 7>>

TotalVolume(mesh) == VolumeLoop(mesh, 1, R(0), ZeroVec)[1]

\* C4: when the signed volumes of a mesh sum to zero, get_center_of_mass ends
\* in an error, never in a triple obtained by dividing by zero, and so does
\* scale_mesh about the center of mass.
C4_ZeroVolumeIsAnError ==
    /\ (op = "get_center_of_mass" /\ TotalVolume(args[1]) = R(0)) =>
           res.outcome # "ok"
    /\ (op = "scale_mesh" /\ ~args[3] /\ Gt0(args[2]) /\ TotalVolume(args[1]) = R(0)) =>
           res.outcome # "ok"

\* C5: scale_mesh with scale <= 0 raises the domain error and returns no
\* mesh, for every mesh and about_origin, zero-volume meshes included; with
\* scale > 0 about the origin the points are scale * points and the faces are
\* the input faces; scale 2 on [(1,0,0),(0,1,0)] gives [(2,0,0),(0,2,0)].
C5_ScaleDomain ==
    op = "scale_mesh" =>
        LET mesh == args[1]
            scale == args[2]
        IN  /\ (scale[1] <= 0) => res.outcome = "ValueError"
            /\ (scale[1] > 0 /\ args[3]) =>
                   /\ res.outcome = "ok"
                   /\ Len(res.value.points) = Len(mesh.points)
                   /\ \A i \in 1..Len(mesh.points) : \A k \in 1..3 :
                          res.value.points[i][k] = Mul(scale, mesh.points[i][k])
                   /\ res.value.faces = mesh.faces
            /\ (mesh = TwoPoints /\ scale = R(2) /\ args[3]) =>
                   res.value.points = <<V(2, 0, 0), V(0, 2, 0)>>

C5_Witness ==
    /\ op = "scale_mesh"
    /\ args = <<Triangle, R(0), FALSE>>
    /\ res.outcome = "ValueError"

=============================================================================
